---- MODULE Spec2Model ----
(***************************************************************************)
(* APOD viewer (APOD_app_v1.1.py): fetch_apod, update_apod_db and the      *)
(* display_apod button handler, with the CSV cache nasa_apod.csv as the    *)
(* only persistent state.                                                  *)
(*                                                                         *)
(* A Python dict is a function whose DOMAIN is the set of keys present.    *)
(* The cache file holds TEXT; a DataFrame holds typed cells.  pd.read_csv  *)
(* and DataFrame.to_csv convert between the two and are modelled by what   *)
(* they do (NA recognition, per-column dtype inference, number formatting).*)
(***************************************************************************)
EXTENDS Integers, Sequences, FiniteSets, TLC

VARIABLES
    file,               \* nasa_apod.csv on disk
    response,           \* what the remote service answered to the last request
    apod_data,          \* display_apod's local / update_apod_db's argument
    apod_df,            \* the DataFrame update_apod_db returned last
    outcome,            \* how far the last call got
    raised,             \* the exception that escaped the last call ("" if none)
    title_label,        \* widget texts
    explanation_label,
    image_label,
    db_at_start,        \* history: the cache as it was before the first call
    dates_seen,         \* history: dates of the completed update_apod_db calls
    expected,           \* history: the rows the records upserted so far call for
    all_distinct        \* history: no completed update_apod_db call repeated a date

vars == <<file, response, apod_data, apod_df, outcome, raised, title_label,
          explanation_label, image_label, db_at_start, dates_seen, expected,
          all_distinct>>

(***************************************************************************)
(* Bounds and value domains                                                *)
(***************************************************************************)
MaxRows == 3            \* no call is started once the cache holds this many rows

HTTP_OK == 200

Dates == {"2024-01-01", "2024-01-02"}
\* "T1" survives a CSV round trip; "NA" is one of read_csv's NA markers; "007"
\* is a numeral with leading zeros.
Titles == {"T1", "NA", "007"}

Columns == <<"date", "title", "explanation", "copyright", "media_type", "url", "hdurl">>
ColumnSet == {Columns[i] : i \in 1..Len(Columns)}
RequiredKeys == {"date", "title", "explanation", "media_type", "url"}

EmptyDict == <<>>

Restrict(d, keys) == [k \in keys |-> d[k]]

\* dict.get(key, default)
dict_get(d, key, default) == IF key \in DOMAIN d THEN d[key] ELSE default

FullRecord(date, title, media) ==
    [date |-> date, title |-> title, explanation |-> "...", copyright |-> "C",
     media_type |-> media, url |-> "http://x/1", hdurl |-> "http://x/hd"]

\* Records as update_apod_db's contract takes them: every required field,
\* copyright and hdurl each present or not.
Records ==
    {Restrict(FullRecord(d, t, "image"), RequiredKeys \cup opt) :
        d \in Dates, t \in Titles, opt \in SUBSET {"copyright", "hdurl"}}

\* JSON objects the remote service may answer with: complete ones, and ones
\* lacking one of the documented fields.
Bodies ==
    {Restrict(FullRecord(d, "T1", m), RequiredKeys \cup opt) :
        d \in Dates, m \in {"image", "video"}, opt \in {{}, {"copyright", "hdurl"}}}
    \cup {Restrict(FullRecord("2024-01-01", "T1", "image"), ColumnSet \ {k}) :
            k \in RequiredKeys}

Responses ==
    {[kind |-> "neterr", status |-> 0, json_ok |-> FALSE, body |-> EmptyDict]}
    \cup {[kind |-> "http", status |-> 404, json_ok |-> TRUE, body |-> EmptyDict]}
    \cup {[kind |-> "http", status |-> HTTP_OK, json_ok |-> FALSE, body |-> EmptyDict]}
    \cup {[kind |-> "http", status |-> HTTP_OK, json_ok |-> TRUE, body |-> b] : b \in Bodies}

(***************************************************************************)
(* The cache file and pandas' CSV conversions                              *)
(***************************************************************************)
NoFile       == [exists |-> FALSE, header |-> FALSE, rows |-> <<>>]
ZeroByteFile == [exists |-> TRUE,  header |-> FALSE, rows |-> <<>>]
HeaderOnly   == [exists |-> TRUE,  header |-> TRUE,  rows |-> <<>>]

StrCell(s)   == [t |-> "str",   s |-> s,  n |-> 0]
IntCell(n)   == [t |-> "int",   s |-> "", n |-> n]
FloatCell(n) == [t |-> "float", s |-> "", n |-> n]
NaN          == [t |-> "nan",   s |-> "", n |-> 0]

\* read_csv's default NA markers
na_values ==
    {"", "#N/A", "#N/A N/A", "#NA", "-1.#IND", "-1.#QNAN", "-NaN", "-nan",
     "1.#IND", "1.#QNAN", "<NA>", "N/A", "NA", "NULL", "NaN", "None", "n/a",
     "nan", "null"}

\* the numerals among the model's tokens and the numbers they denote
int_text   == ("007" :> 7) @@ ("7" :> 7)
float_text == ("7.0" :> 7)

column_tokens(rows, c) == {rows[i][c] : i \in 1..Len(rows)}

\* read_csv infers one dtype per column from all of its tokens
infer_dtype(rows, c) ==
    LET toks == column_tokens(rows, c)
        data == toks \ na_values
    IN  IF data = {} THEN (IF toks = {} THEN "object" ELSE "float64")
        ELSE IF data \subseteq DOMAIN int_text
             THEN (IF toks \cap na_values = {} THEN "int64" ELSE "float64")
        ELSE IF data \subseteq (DOMAIN int_text \cup DOMAIN float_text)
             THEN "float64"
        ELSE "object"

parse_cell(dtype, tok) ==
    IF tok \in na_values THEN NaN
    ELSE IF dtype = "int64" THEN IntCell(int_text[tok])
    ELSE IF dtype = "float64"
         THEN FloatCell(IF tok \in DOMAIN int_text THEN int_text[tok] ELSE float_text[tok])
    ELSE StrCell(tok)

\* pd.read_csv(db_file) of a file that has a header line
read_csv(f) ==
    [i \in 1..Len(f.rows) |->
        [c \in ColumnSet |-> parse_cell(infer_dtype(f.rows, c), f.rows[i][c])]]

render_cell(cell) ==
    IF cell.t = "str" THEN cell.s
    ELSE IF cell.t = "int" THEN ToString(cell.n)
    ELSE IF cell.t = "float" THEN ToString(cell.n) \o ".0"
    ELSE ""

\* apod_df.to_csv(db_file, index=False)
to_csv(df) ==
    [exists |-> TRUE, header |-> TRUE,
     rows |-> [i \in 1..Len(df) |-> [c \in ColumnSet |-> render_cell(df[i][c])]]]

(***************************************************************************)
(* fetch_apod                                                              *)
(***************************************************************************)
Returned(v)  == [exc |-> "", ret |-> v]
Raises(e)    == [exc |-> e,  ret |-> EmptyDict]

\* requests.get raises on a transport failure and response.json() on a body
\* that is not JSON; neither is caught.
fetch_apod(resp) ==
    IF resp.kind = "neterr" THEN Raises("ConnectionError")
    ELSE IF resp.status = HTTP_OK
         THEN IF ~resp.json_ok THEN Raises("JSONDecodeError")
              ELSE IF "date" \in DOMAIN resp.body THEN Returned(resp.body)
              ELSE Returned(EmptyDict)
    ELSE Returned(EmptyDict)

(***************************************************************************)
(* update_apod_db                                                          *)
(***************************************************************************)
\* new_data with data.get('copyright') and data.get('hdurl'): no defaults given
new_data_no_defaults(data) ==
    <<[date        |-> StrCell(data["date"]),
       title       |-> StrCell(data["title"]),
       explanation |-> StrCell(data["explanation"]),
       copyright   |-> IF "copyright" \in DOMAIN data THEN StrCell(data["copyright"]) ELSE NaN,
       media_type  |-> StrCell(data["media_type"]),
       url         |-> StrCell(data["url"]),
       hdurl       |-> IF "hdurl" \in DOMAIN data THEN StrCell(data["hdurl"]) ELSE NaN]>>

\* the one-row DataFrame built from the record; data[k] of a missing key
\* raises KeyError before this is built
new_data(data) ==
    <<[date        |-> StrCell(data["date"]),
       title       |-> StrCell(data["title"]),
       explanation |-> StrCell(data["explanation"]),
       copyright   |-> StrCell(dict_get(data, "copyright", "No copyright info")),
       media_type  |-> StrCell(data["media_type"]),
       url         |-> StrCell(data["url"]),
       hdurl       |-> StrCell(dict_get(data, "hdurl", ""))]>>

\* date_in_db looking at the newest row only
date_in_db_last_row(df, data) ==
    Len(df) > 0 /\ df[Len(df)]["date"] = StrCell(data["date"])

\* (apod_df['date'] == data['date']).any()
date_in_db(df, data) ==
    \E i \in 1..Len(df) : df[i]["date"] = StrCell(data["date"])

\* pd.concat([apod_df, new_data], ignore_index=True)
concat(df, rows) == df \o rows

Stored(f, df) == [exc |-> "", file |-> f, df |-> df]
Failed(e, f)  == [exc |-> e,  file |-> f, df |-> <<>>]

\* update_apod_db with to_csv inside the "file exists" branch only
update_apod_db_save_in_branch(data, f) ==
    IF ~(RequiredKeys \subseteq DOMAIN data) THEN Failed("KeyError", f)
    ELSE IF f.exists
         THEN IF ~f.header THEN Failed("EmptyDataError", f)
              ELSE LET loaded == read_csv(f)
                       df == IF ~date_in_db(loaded, data)
                             THEN concat(loaded, new_data(data))
                             ELSE loaded
                   IN  Stored(to_csv(df), df)
    ELSE Stored(f, new_data(data))

update_apod_db(data, f) ==
    IF ~(RequiredKeys \subseteq DOMAIN data) THEN Failed("KeyError", f)
    ELSE IF f.exists
         THEN IF ~f.header THEN Failed("EmptyDataError", f)
              ELSE LET loaded == read_csv(f)
                       df == IF ~date_in_db(loaded, data)
                             THEN concat(loaded, new_data(data))
                             ELSE loaded
                   IN  Stored(to_csv(df), df)
    ELSE Stored(to_csv(new_data(data)), new_data(data))

(***************************************************************************)
(* History variables: what the records upserted so far call for            *)
(***************************************************************************)
\* the row of text a record stands for (section 3 of the data model)
record_row(data) ==
    [c \in ColumnSet |->
        IF c = "copyright" THEN dict_get(data, c, "No copyright info")
        ELSE IF c = "hdurl" THEN dict_get(data, c, "")
        ELSE data[c]]

History(data, completed) ==
    IF completed
    THEN /\ dates_seen' = dates_seen \cup {data["date"]}
         /\ expected' = IF data["date"] \in dates_seen THEN expected
                        ELSE Append(expected, record_row(data))
         /\ all_distinct' = (all_distinct /\ data["date"] \notin dates_seen)
    ELSE UNCHANGED <<dates_seen, expected, all_distinct>>

(***************************************************************************)
(* display_apod: the "Get APOD" button handler, start to end               *)
(***************************************************************************)
\* lines 72-74 without the image_label.config(image='')
show_failure_keep_image ==
    /\ title_label' = "Failed to fetch data."
    /\ explanation_label' = "Please check the date and try again."
    /\ image_label' = image_label

\* lines 72-74
show_failure ==
    /\ title_label' = "Failed to fetch data."
    /\ explanation_label' = "Please check the date and try again."
    /\ image_label' = ""

display_apod(resp, image_ok) ==
    \E f \in {fetch_apod(resp)} : \E u \in {update_apod_db(f.ret, file)} :
        /\ Len(file.rows) < MaxRows
        /\ response' = resp
        /\ apod_data' = f.ret
        /\ db_at_start' = db_at_start
        /\ IF f.exc # ""
           THEN \* fetch_apod raised: nothing after line 69 runs
                /\ outcome' = "fetch_raised"
                /\ raised' = f.exc
                /\ History(f.ret, FALSE)
                /\ UNCHANGED <<file, apod_df, title_label, explanation_label, image_label>>
           ELSE IF DOMAIN f.ret = {}
           THEN \* lines 71-75
                /\ outcome' = "fetch_empty"
                /\ raised' = ""
                /\ show_failure
                /\ History(f.ret, FALSE)
                /\ UNCHANGED <<file, apod_df>>
           ELSE /\ title_label' = dict_get(f.ret, "title", "No Title")
                /\ explanation_label' = dict_get(f.ret, "explanation", "No Explanation")
                /\ IF "url" \in DOMAIN f.ret /\ ~image_ok
                   THEN \* the download, Image.open or resize raised
                        /\ outcome' = "image_raised"
                        /\ raised' = "ImageError"
                        /\ History(f.ret, FALSE)
                        /\ UNCHANGED <<file, apod_df, image_label>>
                   ELSE /\ image_label' = IF "url" \in DOMAIN f.ret THEN "photo"
                                          ELSE image_label
                        /\ outcome' = IF u.exc = "" THEN "stored" ELSE "update_raised"
                        /\ raised' = u.exc
                        /\ file' = u.file
                        /\ apod_df' = u.df
                        /\ History(f.ret, u.exc = "")

\* update_apod_db called on its own with a record
upsert(data) ==
    \E u \in {update_apod_db(data, file)} :
        /\ Len(file.rows) < MaxRows
        /\ apod_data' = data
        /\ outcome' = IF u.exc = "" THEN "stored" ELSE "update_raised"
        /\ raised' = u.exc
        /\ file' = u.file
        /\ apod_df' = u.df
        /\ History(data, u.exc = "")
        /\ UNCHANGED <<response, title_label, explanation_label, image_label, db_at_start>>

(***************************************************************************)
(* Specifications                                                          *)
(***************************************************************************)
NoResponse == [kind |-> "none", status |-> 0, json_ok |-> FALSE, body |-> EmptyDict]

\* gui_launch: empty labels; the cache is whatever is on disk
Init ==
    /\ file \in {NoFile, ZeroByteFile, HeaderOnly}
    /\ db_at_start = file
    /\ response = NoResponse
    /\ apod_data = EmptyDict
    /\ apod_df = <<>>
    /\ outcome = "start"
    /\ raised = ""
    /\ title_label = ""
    /\ explanation_label = ""
    /\ image_label = ""
    /\ dates_seen = {}
    /\ expected = <<>>
    /\ all_distinct = TRUE

Next == \E resp \in Responses, image_ok \in BOOLEAN : display_apod(resp, image_ok)

Spec == Init /\ [][Next]_vars

NextStore == \E data \in Records : upsert(data)

SpecStore == Init /\ [][NextStore]_vars

(***************************************************************************)
(* Properties                                                              *)
(***************************************************************************)
DatesOf(rows) == {rows[i]["date"] : i \in 1..Len(rows)}

IsPrefix(s, t) == Len(s) <= Len(t) /\ \A i \in 1..Len(s) : s[i] = t[i]

\* fetch_apod returned (did not raise) on the last response
FetchReturned == response.kind # "none" /\ fetch_apod(response).exc = ""

\* the last response is a success: status 200, a JSON object with a date
FetchSucceeded ==
    /\ response.kind = "http" /\ response.status = HTTP_OK /\ response.json_ok
    /\ "date" \in DOMAIN response.body

\* C1: the persisted dataset never holds two rows with the same date, and any
\* number of upserts of one date into an absent cache leaves exactly one row.
C1_DateUnique ==
    /\ \A i, j \in 1..Len(file.rows) :
          file.rows[i]["date"] = file.rows[j]["date"] => i = j
    /\ (db_at_start = NoFile /\ Cardinality(dates_seen) = 1) => Len(file.rows) = 1

\* the same date was upserted more than once into a cache that was absent
C1_Witness ==
    /\ db_at_start = NoFile /\ outcome = "stored" /\ ~all_distinct
    /\ dates_seen = {"2024-01-01"} /\ Len(file.rows) = 1

\* C2: whatever the failure (transport failure, non-200 status, unparseable
\* body, body without `date`), fetch_apod returns {} and raises nothing.
C2_FetchNeverRaises ==
    (response.kind # "none" /\ ~FetchSucceeded)
        => (raised = "" /\ outcome = "fetch_empty" /\ apod_data = EmptyDict)

\* C3: an upsert whose date is already in the cache, with a record that differs
\* from the cached row, leaves the file and the returned dataset as the file was.
C3_DedupLeavesUnchanged ==
    [][(/\ outcome' = "stored"
        /\ \E i \in 1..Len(file.rows) :
              /\ file.rows[i]["date"] = apod_data'["date"]
              /\ file.rows[i] # record_row(apod_data'))
       => (file' = file /\ to_csv(apod_df') = file)]_vars

\* C4: after upserts of pairwise distinct dates into an absent cache, the
\* dataset is exactly the rows of the records upserted, defaults applied.
C4_RowsMatchRecords ==
    (db_at_start = NoFile /\ all_distinct /\ outcome = "stored")
        => (/\ file.rows = expected
            /\ Len(file.rows) = Cardinality(dates_seen))

\* C5: a call keeps every persisted row, unchanged and in order, and adds at
\* most one row at the end.
C5_AppendOnly ==
    [][/\ IsPrefix(file.rows, file'.rows)
       /\ Len(file'.rows) <= Len(file.rows) + 1]_vars

\* C6 as stated: on success the record fetch_apod returns always carries
\* copyright and hdurl, defaulted when the response omitted them.
C6_FetchAppliesDefaults ==
    FetchSucceeded
        => (/\ {"copyright", "hdurl"} \subseteq DOMAIN apod_data
            /\ apod_data["copyright"] = dict_get(response.body, "copyright", "No copyright info")
            /\ apod_data["hdurl"] = dict_get(response.body, "hdurl", ""))

\* C6 amended: on success fetch_apod returns the response body as received;
\* the defaults are in the row update_apod_db builds from it.
C6_DefaultsAppliedOnStore ==
    FetchSucceeded
        => (/\ apod_data = response.body
            /\ (outcome = "stored" /\ all_distinct) =>
                  LET row == apod_df[Len(apod_df)]
                  IN  /\ row["date"] = StrCell(apod_data["date"])
                      /\ row["copyright"] =
                            StrCell(dict_get(apod_data, "copyright", "No copyright info"))
                      /\ row["hdurl"] = StrCell(dict_get(apod_data, "hdurl", "")))

\* a success without copyright and hdurl was fetched and its row stored
C6_Witness ==
    /\ FetchSucceeded /\ outcome = "stored" /\ all_distinct
    /\ DOMAIN response.body = RequiredKeys
    /\ apod_df[Len(apod_df)]["copyright"] = StrCell("No copyright info")

Record7 == Restrict(FullRecord("2024-01-01", "T1", "image"), RequiredKeys)

Row7 ==
    [date |-> "2024-01-01", title |-> "T1", explanation |-> "...",
     copyright |-> "No copyright info", media_type |-> "image",
     url |-> "http://x/1", hdurl |-> ""]

OneRow7 ==
    /\ outcome' = "stored"
    /\ file' = [exists |-> TRUE, header |-> TRUE, rows |-> <<Row7>>]
    /\ Len(apod_df') = 1
    /\ apod_df'[1]["copyright"] = StrCell("No copyright info")
    /\ apod_df'[1]["hdurl"] = StrCell("")

\* C7 as stated: upserting the scenario's record into an empty cache file (a
\* file with nothing in it, or no file) yields exactly that one row.
C7_EmptyCacheOneRow ==
    [][((~file.exists \/ file.rows = <<>>) /\ apod_data' = Record7) => OneRow7]_vars

\* C7 amended: the same when the cache file is absent or holds the header line
\* and no rows.
C7_NoRowsOneRow ==
    [][((~file.exists \/ (file.header /\ file.rows = <<>>)) /\ apod_data' = Record7)
          => OneRow7]_vars

\* the scenario's record was the one upsert into a header-only cache
C7_Witness ==
    /\ db_at_start = HeaderOnly /\ apod_data = Record7 /\ outcome = "stored"
    /\ all_distinct /\ dates_seen = {"2024-01-01"}
    /\ file.rows = <<Row7>>

\* C8: when fetch_apod returns {}, display_apod shows the failure texts, clears
\* the image and leaves the cache alone (update_apod_db is not called).
C8_FailureShown ==
    [][(response'.kind # "none" /\ fetch_apod(response') = Returned(EmptyDict))
          => (/\ title_label' = "Failed to fetch data."
              /\ explanation_label' = "Please check the date and try again."
              /\ image_label' = ""
              /\ file' = file
              /\ apod_df' = apod_df /\ dates_seen' = dates_seen)]_vars

\* a fetch failed after an earlier one had been shown and cached
C8_Witness ==
    /\ response.kind = "http" /\ response.status = 404
    /\ outcome = "fetch_empty" /\ image_label = "" /\ Len(file.rows) = 1
    /\ title_label = "Failed to fetch data."

\* C9: when fetch_apod returned a record, the cache holds a row for its date
\* once the action has ended (here: for a complete record and a readable cache).
C9_FetchedIsStored ==
    (/\ FetchReturned /\ apod_data # EmptyDict
     /\ RequiredKeys \subseteq DOMAIN apod_data
     /\ db_at_start # ZeroByteFile)
        => (file.exists /\ apod_data["date"] \in DatesOf(file.rows))

\* C10: a record fetch_apod returns has every required field, so
\* update_apod_db does not fail on a missing one.
C10_FetchedHasRequired ==
    (FetchReturned /\ apod_data # EmptyDict)
        => (RequiredKeys \subseteq DOMAIN apod_data /\ raised # "KeyError")

====
